---------------------------- MODULE Spec2Model ----------------------------
(***************************************************************************)
(* Model of tf2marl/multiagent/environment.py: MultiAgentEnv (action-space *)
(* composition, action decoding, step, reset) and BatchMultiAgentEnv.      *)
(*                                                                         *)
(* Numbers.  Action vectors and commands are fixed-point numbers counted   *)
(* in halves: the float 1.0 is One (= 2) and 0.5 is 1.  Sensitivities      *)
(* (5.0, agent.accel) are plain integers, so a command u * sensitivity is  *)
(* again a count of halves.  Python sequences are TLA+ sequences; Python   *)
(* index k is TLA+ index k + 1.                                            *)
(*                                                                         *)
(* Errors.  An operator that models code which can raise returns a record  *)
(* whose field err is "" when the code completes and the name of the       *)
(* Python exception otherwise.                                             *)
(***************************************************************************)
EXTENDS Integers, Sequences, FiniteSets, TLC

VARIABLES
    mode,     \* the literals of __init__ lines 31 and 33 (the decoding mode of the build)
    world,    \* the World object handed to the environment (and its agents)
    cbs,      \* which optional scenario callbacks were passed to __init__
    env,      \* the MultiAgentEnv instance
    batch,    \* the BatchMultiAgentEnv instance (its env_batch), when there is one
    call,     \* the last method call and what it returned or raised
    hist,     \* bookkeeping of the calls made so far (not program state)
    train     \* the locals of train() in train.py, when it runs

vars == <<mode, world, cbs, env, batch, call, hist, train>>

---------------------------------------------------------------------------
(* Bounds of the explored inputs *)

MaxVal == 2          \* action-vector elements range over 0..MaxVal (halves)
MaxTail == 2         \* longest tail appended to a dense 5-element vector
MaxAgents == 2       \* most agents in a world (environment specifications)
MaxDimP == 3         \* largest world.dim_p explored by the composition specification
MaxDimC == 2         \* largest world.dim_c
MaxReward == 1       \* reward callback values range over 0..MaxReward
MaxTicks == 2        \* most step() calls between two resets
MaxEpisodes == 2     \* most reset() calls in a run
MaxBatch == 2        \* most sub-environments of a batch

(* Program constants *)

One == 2                 \* the float 1.0 in halves (line 201: action[0][d] = 1.0)
DefaultSensitivity == 5  \* line 207: sensitivity = 5.0
DimP == 2                \* world.dim_p of the decoder's worlds: lines 203-204 write u[0] and u[1]
NumPresets == 16         \* line 51: spaces.Discrete(16)
StepParams == 1          \* line 88: def step(self, action_n)
n_adversaries == 0       \* line 23: self.n_adversaries = 0

---------------------------------------------------------------------------
(* Python helpers *)

Min(a, b) == IF a < b THEN a ELSE b

Zeros(k) == [i \in 1..k |-> 0]

\* seq[a:b] for 0 <= a <= b: out-of-range bounds are clipped, never an error
Slice(s, a, b) == SubSeq(s, Min(a, Len(s)) + 1, Min(b, Len(s)))

RECURSIVE SumSeq(_)
SumSeq(s) == IF s = <<>> THEN 0 ELSE s[1] + SumSeq(Tail(s))

\* np.argmax: the (0-based) index of the first maximal element
ArgMax(v) == (CHOOSE i \in 1..Len(v) :
                 /\ \A j \in 1..Len(v) : v[j] <= v[i]
                 /\ \A j \in 1..(i - 1) : v[j] < v[i]) - 1

---------------------------------------------------------------------------
(* gym spaces *)

Discrete(n) == [kind |-> "Discrete", n |-> n]

Box(dim) == [kind |-> "Box", dim |-> dim]

TupleSpace(spaces) == [kind |-> "Tuple", spaces |-> spaces]

\* MultiDiscrete(array_of_param_array): low and high are the two columns
MultiDiscrete(ranges) ==
    [kind |-> "MultiDiscrete",
     low  |-> [i \in 1..Len(ranges) |-> ranges[i][1]],
     high |-> [i \in 1..Len(ranges) |-> ranges[i][2]]]

---------------------------------------------------------------------------
(* The World (external collaborator) *)

\* world.policy_agents: the agents without an action callback, in list order
\* (as indices into world.agents)
RECURSIVE PolicyFrom(_, _)
PolicyFrom(w, i) ==
    IF i > Len(w.agents) THEN <<>>
    ELSE (IF w.agents[i].scripted THEN <<>> ELSE <<i>>) \o PolicyFrom(w, i + 1)

policy_agents(w) == PolicyFrom(w, 1)

\* hasattr(world, name): an optional attribute is <<>> when absent, <<value>> when present
AttrOr(attr, default) == IF attr = <<>> THEN default ELSE attr[1]

---------------------------------------------------------------------------
(* MultiAgentEnv.__init__ : action-space composition *)

u_action_space(m, w) ==
    IF m.discrete_action_space /\ ~m.discrete_action_input
        THEN Discrete(w.dim_p * 2 + 1)
    ELSE IF m.discrete_action_space /\ m.discrete_action_input
        THEN Discrete(NumPresets)
    ELSE Box(w.dim_p)

c_action_space(m, w) ==
    IF m.discrete_action_space THEN Discrete(w.dim_c) ELSE Box(w.dim_c)

\* a composer that appends the physical sub-space after the communication one
total_action_space_CommFirst(m, w, agent) ==
    (IF ~agent.silent THEN <<c_action_space(m, w)>> ELSE <<>>)
    \o (IF agent.movable THEN <<u_action_space(m, w)>> ELSE <<>>)

total_action_space(m, w, agent) ==
    (IF agent.movable THEN <<u_action_space(m, w)>> ELSE <<>>)
    \o (IF ~agent.silent THEN <<c_action_space(m, w)>> ELSE <<>>)

\* a composer that packs whatever it is given, an empty list included
ComposeSpace_NoIndex(tas) ==
    IF Len(tas) # 1 THEN
        [err |-> "", space |-> MultiDiscrete([i \in 1..Len(tas) |-> <<0, tas[i].n - 1>>])]
    ELSE [err |-> "", space |-> tas[1]]

\* lines 64-72: the space appended to self.action_space, or the IndexError of
\* total_action_space[0] on an empty list
ComposeSpace(tas) ==
    IF Len(tas) > 1 THEN
        [err |-> "",
         space |-> IF \A i \in 1..Len(tas) : tas[i].kind = "Discrete"
                   THEN MultiDiscrete([i \in 1..Len(tas) |-> <<0, tas[i].n - 1>>])
                   ELSE TupleSpace(tas)]
    ELSE IF Len(tas) = 0 THEN [err |-> "IndexError", space |-> <<>>]
    ELSE [err |-> "", space |-> tas[1]]

\* the observation callback (external): an array identifying the agent and the
\* world state it was computed from
observation_callback(i, w) == [agent |-> i, t |-> w.t, dtype |-> "float64"]

ObsShape(o) == 2

\* the loop of lines 45-78 over agents[k..]: the spaces built so far, the world
\* with action.c zeroed for every agent the loop completed, and the error if any
RECURSIVE InitLoop(_, _, _, _, _)
InitLoop(m, w, agents, k, acc) ==
    IF k > Len(agents) THEN [err |-> "", world |-> w, action_space |-> acc.a,
                             observation_space |-> acc.o]
    ELSE LET i == agents[k]
             sp == ComposeSpace(total_action_space(m, w, w.agents[i]))
         IN IF sp.err # "" THEN [err |-> sp.err, world |-> w, action_space |-> acc.a,
                                 observation_space |-> acc.o]
            ELSE InitLoop(m,
                          [w EXCEPT !.agents[i].c = Zeros(w.dim_c)],
                          agents, k + 1,
                          [a |-> Append(acc.a, sp.space),
                           o |-> Append(acc.o, Box(ObsShape(observation_callback(i, w))))])

Unbuilt == [phase |-> "unbuilt"]

\* lines 19-43 and 80-86: the instance, given the outcome of the loop
InitFields(m, w, c, agents, loop) ==
    [err |-> loop.err,
     world |-> loop.world,
     env |-> IF loop.err # "" THEN [phase |-> "failed", err |-> loop.err]
             ELSE [phase |-> "ready",
                   agents |-> agents,
                   n |-> Len(agents),
                   reward_callback |-> c.reward,
                   done_callback |-> c.done,
                   discrete_action_space |-> m.discrete_action_space,
                   discrete_action_input |-> m.discrete_action_input,
                   force_discrete_action |-> AttrOr(w.discrete_action, FALSE),
                   shared_reward |-> AttrOr(w.collaborative, FALSE),
                   time |-> 0,
                   has_dest |-> FALSE,
                   reward_list_all |-> <<>>,
                   action_space |-> loop.action_space,
                   observation_space |-> loop.observation_space]]

\* the whole of __init__
MultiAgentEnvInit(m, w, c) ==
    InitFields(m, w, c, policy_agents(w),
               InitLoop(m, w, policy_agents(w), 1, [a |-> <<>>, o |-> <<>>]))

\* the state after a call MultiAgentEnv(world, ...) with outcome r
Constructed(r) ==
    /\ env' = r.env
    /\ world' = r.world
    /\ call' = [op |-> "init", err |-> r.err]

Construct ==
    /\ env.phase = "unbuilt"
    /\ Constructed(MultiAgentEnvInit(mode, world, cbs))
    /\ UNCHANGED <<mode, cbs, batch, hist, train>>

---------------------------------------------------------------------------
(* MultiAgentEnv._set_action : the action decoder *)

\* lines 164-173: the list of sub-vectors `action` becomes
RECURSIVE Segments(_, _, _)
Segments(action, size, index) ==
    IF size = <<>> THEN <<>>
    ELSE <<Slice(action, index, index + size[1])>>
         \o Segments(action, Tail(size), index + size[1])

\* a split whose first segment starts at element 1 instead of element 0
SplitAction_FromOne(action, action_space) ==
    IF action_space.kind = "MultiDiscrete"
    THEN Segments(action,
                  [j \in 1..Len(action_space.high) |->
                      action_space.high[j] - action_space.low[j] + 1],
                  1)
    ELSE <<action>>

SplitAction(action, action_space) ==
    IF action_space.kind = "MultiDiscrete"
    THEN Segments(action,
                  [j \in 1..Len(action_space.high) |->
                      action_space.high[j] - action_space.low[j] + 1],
                  0)
    ELSE <<action>>

\* a table whose index 0 is "stop" instead of (0, 1.0)
Preset_StopAtZero(d) ==
    LET compass == << <<0, 2>>, <<2, 2>>, <<2, 0>>, <<2, -2>>,
                      <<0, -2>>, <<-2, -2>>, <<-2, 0>>, <<-2, 2>> >>
    IN IF d = 0 THEN <<0, 0>>
       ELSE IF d < 8 THEN compass[d + 1]
       ELSE <<compass[d - 7][1] \div 2, compass[d - 7][2] \div 2>>

\* lines 181-196: the preset (u[0], u[1]) of index d, in halves
Preset(d) ==
    CASE d = 0  -> <<0, 2>>
      [] d = 1  -> <<2, 2>>
      [] d = 2  -> <<2, 0>>
      [] d = 3  -> <<2, -2>>
      [] d = 4  -> <<0, -2>>
      [] d = 5  -> <<-2, -2>>
      [] d = 6  -> <<-2, 0>>
      [] d = 7  -> <<-2, 2>>
      [] d = 8  -> <<0, 1>>
      [] d = 9  -> <<1, 1>>
      [] d = 10 -> <<1, 0>>
      [] d = 11 -> <<1, -1>>
      [] d = 12 -> <<0, -1>>
      [] d = 13 -> <<-1, -1>>
      [] d = 14 -> <<-1, 0>>
      [] d = 15 -> <<-1, 1>>

\* lines 178-196: u after the if/elif chain (no branch is taken for d > 15)
PresetCommand(u, d) ==
    IF d >= NumPresets THEN [err |-> "", u |-> u]
    ELSE IF Len(u) < 1 THEN [err |-> "IndexError", u |-> u]
    ELSE IF Len(u) < 2 THEN [err |-> "IndexError", u |-> [u EXCEPT ![1] = Preset(d)[1]]]
    ELSE [err |-> "", u |-> [u EXCEPT ![1] = Preset(d)[1], ![2] = Preset(d)[2]]]

\* a forcing step that sets the arg-max element without clearing the others
ForceOneHot_NoClear(a) == [a EXCEPT ![ArgMax(a) + 1] = One]

\* lines 199-201: action[0][:] = 0.0; action[0][d] = 1.0 (in place)
ForceOneHot(a) == [[i \in 1..Len(a) |-> 0] EXCEPT ![ArgMax(a) + 1] = One]

\* a five-way decode with the operands of each difference exchanged
FiveWayCommand_Swapped(u, a) ==
    IF Len(u) < 2 \/ Len(a) < 5 THEN [err |-> "IndexError", u |-> u]
    ELSE [err |-> "", u |-> [u EXCEPT ![1] = @ + a[3] - a[2], ![2] = @ + a[5] - a[4]]]

\* lines 203-204: u[0] += a[1] - a[2]; u[1] += a[3] - a[4]
FiveWayCommand(u, a) ==
    IF Len(u) < 1 \/ Len(a) < 3 THEN [err |-> "IndexError", u |-> u]
    ELSE LET u1 == [u EXCEPT ![1] = @ + a[2] - a[3]]
         IN IF Len(u) < 2 \/ Len(a) < 5 THEN [err |-> "IndexError", u |-> u1]
            ELSE [err |-> "", u |-> [u1 EXCEPT ![2] = @ + a[4] - a[5]]]

\* lines 207-209
Sensitivity(agent) == IF agent.accel # <<>> THEN agent.accel[1] ELSE DefaultSensitivity

\* line 210: agent.action.u *= sensitivity
Scale(u, s) == [i \in 1..Len(u) |-> u[i] * s]

\* line 210 applied to the outcome r of the branch taken, a0 being action[0]
\* as the branch left it
Scaled(r, agent, a0) ==
    IF r.err # "" THEN [err |-> r.err, u |-> r.u, a0 |-> a0]
    ELSE [err |-> "", u |-> Scale(r.u, Sensitivity(agent)), a0 |-> a0]

\* lines 198-206 on the vector a that the forcing step left
VectorCommand(e, w, agent, a) ==
    Scaled(IF e.discrete_action_space THEN FiveWayCommand(Zeros(w.dim_p), a)
           ELSE [err |-> "", u |-> a],
           agent, a)

\* lines 175-211, the physical action: the error if any, agent.action.u as the
\* code leaves it, and action[0] as the code leaves it (it is written in place)
PhysicalAction(e, w, agent, a0) ==
    IF e.discrete_action_input THEN
        IF Len(a0) = 0 THEN [err |-> "ValueError", u |-> Zeros(w.dim_p), a0 |-> a0]
        ELSE Scaled(PresetCommand(Zeros(w.dim_p), ArgMax(a0)), agent, a0)
    ELSE IF e.force_discrete_action /\ Len(a0) = 0
        THEN [err |-> "ValueError", u |-> Zeros(w.dim_p), a0 |-> a0]
    ELSE VectorCommand(e, w, agent, IF e.force_discrete_action THEN ForceOneHot(a0) ELSE a0)

\* lines 212-219, the communication action.  The sub-vector is a float array:
\* used as an index (line 216) it raises IndexError
CommunicationAction(e, w, a0) ==
    IF e.discrete_action_input THEN [err |-> "IndexError", c |-> Zeros(w.dim_c)]
    ELSE [err |-> "", c |-> a0]

\* lines 212-221 on the sub-vectors `rest` left after the physical action ph
\* (segs is the full list, for the record)
AfterPhysical(e, w, agent, segs, rest, ph) ==
    IF ph.err # "" THEN
        [err |-> ph.err, u |-> ph.u, c |-> Zeros(w.dim_c), segs |-> segs,
         used |-> 0, left |-> Len(segs)]
    ELSE IF agent.silent THEN
        [err |-> IF Len(rest) = 0 THEN "" ELSE "AssertionError",
         u |-> ph.u, c |-> Zeros(w.dim_c), segs |-> segs,
         used |-> Len(segs) - Len(rest), left |-> Len(rest)]
    ELSE IF Len(rest) = 0 THEN
        [err |-> "IndexError", u |-> ph.u, c |-> Zeros(w.dim_c), segs |-> segs,
         used |-> Len(segs), left |-> 0]
    ELSE LET cm == CommunicationAction(e, w, rest[1])
         IN IF cm.err # "" THEN
                [err |-> cm.err, u |-> ph.u, c |-> cm.c, segs |-> segs,
                 used |-> Len(segs) - Len(rest), left |-> Len(rest)]
            ELSE [err |-> IF Len(rest) = 1 THEN "" ELSE "AssertionError",
                  u |-> ph.u, c |-> cm.c, segs |-> segs,
                  used |-> Len(segs) - Len(rest) + 1, left |-> Len(rest) - 1]

\* lines 175-221 on the list of sub-vectors segs
DecodeSegments(e, w, agent, segs) ==
    AfterPhysical(e, w, agent, segs,
                  IF agent.movable THEN Tail(segs) ELSE segs,
                  IF agent.movable THEN PhysicalAction(e, w, agent, segs[1])
                  ELSE [err |-> "", u |-> Zeros(w.dim_p), a0 |-> <<>>])

\* the whole of _set_action(action, agent, action_space): err, agent.action.u
\* and agent.action.c as the call leaves them, the sub-vectors it split the
\* action into (segs), how many of them it consumed (used), and how many
\* sub-vectors the final assertion found left over (left)
SetAction(e, w, agent, action, action_space) ==
    DecodeSegments(e, w, agent, SplitAction(action, action_space))

\* the state after env._set_action(action, env.agents[k], ...) with outcome r
Decoding(k, action, r) ==
    /\ world' = [world EXCEPT !.agents[env.agents[k]].u = r.u,
                              !.agents[env.agents[k]].c = r.c]
    /\ call' = [op |-> "set_action", err |-> r.err, k |-> k, action |-> action,
                segs |-> r.segs, used |-> r.used, left |-> r.left]

\* a call env._set_action(action, env.agents[k], env.action_space[k])
SetActionCall(k, action) ==
    /\ env.phase = "ready"
    /\ k \in 1..env.n
    /\ Decoding(k, action,
                SetAction(env, world, world.agents[env.agents[k]], action,
                          env.action_space[k]))
    /\ UNCHANGED <<mode, cbs, env, batch, hist, train>>

---------------------------------------------------------------------------
(* Scenario callbacks and World.step (external collaborators): pure functions
   of (agent, world) standing for the scenario's *)

\* reward_callback(agent, world) -> (scalar, breakdown); the breakdown is a
\* list of numbers in thousandths
reward_callback(c, i, w) ==
    LET r == (i * c.gain + w.t) % (MaxReward + 1)
    IN [reward |-> r, list |-> <<1000 * r + 4>>]

\* done_callback(agent, world) -> (bool, info)
done_callback(c, i, w) ==
    [done |-> (w.t + i) > c.done_after, info |-> [agent |-> i, t |-> w.t]]

\* reset_callback(world): the world is re-initialized
reset_callback(w) == [w EXCEPT !.t = 0]

\* World.step(): one tick
WorldStep(w) == [w EXCEPT !.t = @ + 1]

---------------------------------------------------------------------------
(* MultiAgentEnv.reset and MultiAgentEnv.step *)

\* _get_obs: the callback's array converted with astype(np.float32)
GetObs(i, w) == [observation_callback(i, w) EXCEPT !.dtype = "float32"]

\* np.round(x, decimals=2) of a number in thousandths (round half to even)
Round2(x) ==
    LET q == x \div 10
        m == x % 10
    IN IF m < 5 THEN 10 * q
       ELSE IF m > 5 THEN 10 * (q + 1)
       ELSE IF q % 2 = 0 THEN 10 * q ELSE 10 * (q + 1)

RoundAll(list) == [j \in 1..Len(list) |-> Round2(list[j])]

\* a reset that leaves the episode counter alone
ResetEffect_NoCount(e, w) ==
    LET w1 == reset_callback(w)
        agents == policy_agents(w1)
    IN [err |-> "",
        world |-> w1,
        env |-> [e EXCEPT !.has_dest = TRUE,
                          !.reward_list_all = [j \in 1..Len(w1.agents) |-> <<>>],
                          !.agents = agents],
        obs_n |-> [k \in 1..Len(agents) |-> GetObs(agents[k], w1)]]

\* a reset that reads the observations before the world is re-initialized
ResetEffect_Stale(e, w) ==
    LET w1 == reset_callback(w)
        agents == policy_agents(w1)
    IN [err |-> "",
        world |-> [w1 EXCEPT !.num_episodes = @ + 1],
        env |-> [e EXCEPT !.has_dest = TRUE,
                          !.reward_list_all = [j \in 1..Len(w1.agents) |-> <<>>],
                          !.agents = agents],
        obs_n |-> [k \in 1..Len(agents) |-> GetObs(agents[k], w)]]

\* a reset that creates the reward history buffers once and keeps them afterwards
ResetEffect_KeepHistory(e, w) ==
    LET w1 == reset_callback(w)
        agents == policy_agents(w1)
    IN [err |-> "",
        world |-> [w1 EXCEPT !.num_episodes = @ + 1],
        env |-> [e EXCEPT !.has_dest = TRUE,
                          !.reward_list_all = IF @ = <<>>
                                              THEN [j \in 1..Len(w1.agents) |-> <<>>]
                                              ELSE @,
                          !.agents = agents],
        obs_n |-> [k \in 1..Len(agents) |-> GetObs(agents[k], w1)]]

\* the whole of reset() (lines 119-132)
ResetEffect(e, w) ==
    LET w1 == reset_callback(w)
        agents == policy_agents(w1)
    IN [err |-> "",
        world |-> [w1 EXCEPT !.num_episodes = @ + 1],
        env |-> [e EXCEPT !.has_dest = TRUE,
                          !.reward_list_all = [j \in 1..Len(w1.agents) |-> <<>>],
                          !.agents = agents],
        obs_n |-> [k \in 1..Len(agents) |-> GetObs(agents[k], w1)]]

\* an event of a step() call: the decoder invoked for an agent, World.step()
\* invoked (agent 0), or a scenario callback invoked for an agent
Event(ev, agent) == [ev |-> ev, agent |-> agent]

\* lines 95-96: the decoding loop over agents[k..]; it stops at the first error;
\* log lists the decoder invocations made
RECURSIVE DecodeLoop(_, _, _, _, _)

\* the loop after agent agents[k] was decoded with outcome r
DecodeNext(e, w, agents, action_n, k, r) ==
    IF r.err # ""
    THEN [err |-> r.err,
          world |-> [w EXCEPT !.agents[agents[k]].u = r.u, !.agents[agents[k]].c = r.c],
          log |-> <<Event("_set_action", agents[k])>>]
    ELSE [DecodeLoop(e,
                     [w EXCEPT !.agents[agents[k]].u = r.u, !.agents[agents[k]].c = r.c],
                     agents, action_n, k + 1)
            EXCEPT !.log = <<Event("_set_action", agents[k])>> \o @]

DecodeLoop(e, w, agents, action_n, k) ==
    IF k > Len(agents) THEN [err |-> "", world |-> w, log |-> <<>>]
    ELSE IF k > Len(action_n) \/ k > Len(e.action_space)
        THEN [err |-> "IndexError", world |-> w, log |-> <<>>]
    ELSE DecodeNext(e, w, agents, action_n, k,
                    SetAction(e, w, w.agents[agents[k]], action_n[k], e.action_space[k]))

EmptyCollect ==
    [obs_n |-> <<>>, reward_n |-> <<>>, done_n |-> <<>>, info_n |-> <<>>, log |-> <<>>]

\* lines 100-111: the collection loop over agents[k..]; acc holds the four
\* lists so far (and the callbacks invoked so far) and rla is self.reward_list_all
RECURSIVE CollectLoop(_, _, _, _, _, _, _)
CollectLoop(e, c, w, agents, k, acc, rla) ==
    IF k > Len(agents) THEN [err |-> "", acc |-> acc, rla |-> rla]
    ELSE LET i == agents[k]
             obs == GetObs(i, w)
             acc1 == [acc EXCEPT !.obs_n = Append(@, obs),
                                 !.log = Append(@, Event("observation_callback", i))]
         IN \* reward, reward_list = self._get_reward(agent): 0.0 does not unpack
            IF ~e.reward_callback THEN [err |-> "TypeError", acc |-> acc1, rla |-> rla]
            ELSE LET rw == reward_callback(c, i, w)
                     acc2 == [acc1 EXCEPT !.reward_n = Append(@, rw.reward),
                                          !.log = Append(@, Event("reward_callback", i))]
                 IN \* done, info = self._get_done(agent): False does not unpack
                    IF ~e.done_callback
                        THEN [err |-> "TypeError", acc |-> acc2, rla |-> rla]
                    ELSE LET dn == done_callback(c, i, w)
                             acc3 == [acc2 EXCEPT !.done_n = Append(@, dn.done),
                                                  !.log = Append(@, Event("done_callback", i))]
                         IN \* self.reward_list_all[i].append(...)
                            IF k > Len(rla)
                                THEN [err |-> "IndexError", acc |-> acc3, rla |-> rla]
                            ELSE CollectLoop(e, c, w, agents, k + 1,
                                     [acc3 EXCEPT !.info_n = Append(@, dn.info)],
                                     [rla EXCEPT ![k] = Append(@, RoundAll(rw.list))])

\* an aggregation that hands every agent its own reward whatever shared_reward is
Aggregate_Individual(reward_n, shared_reward, n) == reward_n

\* lines 113-115: reward = np.sum(reward_n); [reward] * self.n if shared
Aggregate(reward_n, shared_reward, n) ==
    IF shared_reward THEN [k \in 1..n |-> SumSeq(reward_n)] ELSE reward_n

\* lines 112-117: what step returns from the four collected lists (raw keeps
\* the collected rewards as they were before aggregation)
StepReturn(co, shared_reward, n) ==
    [obs_n |-> co.obs_n,
     reward_n |-> Aggregate(co.reward_n, shared_reward, n),
     done_n |-> co.done_n,
     info_n |-> co.info_n,
     raw |-> co.reward_n]

\* lines 112-117 after the collection loop ended with outcome co
AfterCollect(e, w, co) ==
    IF co.err # ""
    THEN [err |-> co.err, env |-> [e EXCEPT !.reward_list_all = co.rla],
          world |-> w, ret |-> <<>>, log |-> co.acc.log]
    ELSE [err |-> "", env |-> [e EXCEPT !.reward_list_all = co.rla], world |-> w,
          ret |-> StepReturn(co.acc, e.shared_reward, e.n), log |-> co.acc.log]

\* lines 98-111 on the world w that World.step() left
AdvanceAndCollect(e, c, w, agents) ==
    AfterCollect(e, w, CollectLoop(e, c, w, agents, 1, EmptyCollect, e.reward_list_all))

\* a step that collects the observations, rewards and dones first and advances
\* the world afterwards
AfterDecode_StepLast(e, c, agents, dec) ==
    IF dec.err # ""
    THEN [err |-> dec.err, env |-> e, world |-> dec.world, ret |-> <<>>, log |-> dec.log]
    ELSE [AdvanceAndCollect(e, c, dec.world, agents)
            EXCEPT !.log = dec.log \o @ \o <<Event("world.step", 0)>>,
                   !.world = WorldStep(@)]

\* lines 97-117 after the decoding loop ended with outcome dec
AfterDecode(e, c, agents, dec) ==
    IF dec.err # ""
    THEN [err |-> dec.err, env |-> e, world |-> dec.world, ret |-> <<>>, log |-> dec.log]
    ELSE [AdvanceAndCollect(e, c, WorldStep(dec.world), agents)
            EXCEPT !.log = dec.log \o <<Event("world.step", 0)>> \o @]

\* lines 93-96 with self.agents refreshed
DecodeAll(e, c, w, agents, action_n) ==
    AfterDecode(e, c, agents, DecodeLoop(e, w, agents, action_n, 1))

\* the whole of step(action_n) (lines 88-117)
StepEffect(e, c, w, action_n) ==
    DecodeAll([e EXCEPT !.agents = policy_agents(w)], c, w, policy_agents(w), action_n)

\* a call of MultiAgentEnv.step with the positional arguments args: the method
\* takes one (line 88), any other count is a TypeError
MultiAgentEnvStep(e, c, w, args) ==
    IF Len(args) # StepParams
    THEN [err |-> "TypeError", env |-> e, world |-> w, ret |-> <<>>, log |-> <<>>]
    ELSE StepEffect(e, c, w, args[1])

\* the state after env.reset() with outcome r
Resetting(r) ==
    /\ env' = r.env
    /\ world' = r.world
    /\ call' = [op |-> "reset", err |-> r.err, obs_n |-> r.obs_n]

Reset ==
    /\ env.phase = "ready"
    /\ hist.resets < MaxEpisodes
    /\ Resetting(ResetEffect(env, world))
    /\ hist' = [hist EXCEPT !.resets = @ + 1, !.before = world.t]
    /\ UNCHANGED <<mode, cbs, batch, train>>

\* the state after env.step(action_n) with outcome r
Stepping(action_n, r) ==
    /\ env' = r.env
    /\ world' = r.world
    /\ call' = [op |-> "step", err |-> r.err, action_n |-> action_n, ret |-> r.ret,
                log |-> r.log]

Step(action_n) ==
    /\ env.phase = "ready"
    /\ world.t < MaxTicks
    /\ Stepping(action_n, MultiAgentEnvStep(env, cbs, world, <<action_n>>))
    /\ UNCHANGED <<mode, cbs, batch, hist, train>>

---------------------------------------------------------------------------
(* BatchMultiAgentEnv: env_batch is a sequence of [env, world] pairs *)

\* the n property (line 377)
BatchN(b) == SumSeq([j \in 1..Len(b) |-> b[j].env.n])

\* lines 393-399: the loop over env_batch[j..]; i is the offset into action_n,
\* passed collects the argument lists handed to the sub-environments
RECURSIVE BatchStepLoop(_, _, _, _, _, _, _)

\* the loop after env_batch[j].step(...) ended with outcome r
BatchStepNext(b, c, action_n, time, j, i, acc, r) ==
    IF r.err # ""
    THEN [err |-> r.err, batch |-> [b EXCEPT ![j] = [env |-> r.env, world |-> r.world]],
          acc |-> acc]
    ELSE BatchStepLoop([b EXCEPT ![j] = [env |-> r.env, world |-> r.world]],
                       c, action_n, time, j + 1, i + b[j].env.n,
                       [acc EXCEPT !.obs_n = @ \o r.ret.obs_n,
                                   !.reward_n = @ \o r.ret.reward_n,
                                   !.done_n = @ \o r.ret.done_n])

BatchStepLoop(b, c, action_n, time, j, i, acc) ==
    IF j > Len(b) THEN [err |-> "", batch |-> b, acc |-> acc]
    ELSE BatchStepNext(b, c, action_n, time, j, i,
             [acc EXCEPT !.passed = Append(@, <<Slice(action_n, i, i + b[j].env.n), time>>)],
             MultiAgentEnvStep(b[j].env, c, b[j].world,
                               <<Slice(action_n, i, i + b[j].env.n), time>>))

\* the whole of BatchMultiAgentEnv.step(action_n, time) (lines 387-400)
BatchStepEffect(b, c, action_n, time) ==
    BatchStepLoop(b, c, action_n, time, 1, 0,
                  [obs_n |-> <<>>, reward_n |-> <<>>, done_n |-> <<>>,
                   info_n |-> [n |-> <<>>], passed |-> <<>>])

\* lines 402-406: the loop of BatchMultiAgentEnv.reset over env_batch[j..]
RECURSIVE BatchResetLoop(_, _, _)

BatchResetNext(b, j, obs_n, r) ==
    BatchResetLoop([b EXCEPT ![j] = [env |-> r.env, world |-> r.world]],
                   j + 1, obs_n \o r.obs_n)

BatchResetLoop(b, j, obs_n) ==
    IF j > Len(b) THEN [batch |-> b, obs_n |-> obs_n]
    ELSE BatchResetNext(b, j, obs_n, ResetEffect(b[j].env, b[j].world))

BatchResetting(r) ==
    /\ batch' = r.batch
    /\ call' = [op |-> "batch_reset", err |-> "", obs_n |-> r.obs_n]

BatchReset ==
    /\ hist.resets < MaxEpisodes
    /\ BatchResetting(BatchResetLoop(batch, 1, <<>>))
    /\ hist' = [hist EXCEPT !.resets = @ + 1]
    /\ UNCHANGED <<mode, world, cbs, env, train>>

BatchStepping(action_n, time, r) ==
    /\ batch' = r.batch
    /\ call' = [op |-> "batch_step", err |-> r.err, action_n |-> action_n,
                time |-> time, passed |-> r.acc.passed,
                obs_n |-> r.acc.obs_n, reward_n |-> r.acc.reward_n,
                done_n |-> r.acc.done_n, info_n |-> r.acc.info_n]

BatchStep(action_n, time) ==
    /\ BatchStepping(action_n, time, BatchStepEffect(batch, cbs, action_n, time))
    /\ UNCHANGED <<mode, world, cbs, env, hist, train>>

---------------------------------------------------------------------------
(* Action vectors *)

\* a vector with a peak at p and a runner-up at q
Peaked(len, p, q) == [i \in 1..len |-> IF i = p THEN One ELSE IF i = q THEN 1 ELSE 0]

\* a vector of the length that the action space sp declares
FullVector(sp) ==
    LET len == IF sp.kind = "MultiDiscrete"
               THEN SumSeq([j \in 1..Len(sp.high) |-> sp.high[j] - sp.low[j] + 1])
               ELSE sp.n
    IN Peaked(len, len, 2)

---------------------------------------------------------------------------
(* train.py: get_agents *)

\* the identifiers train_config lists as available (line 93)
PolicyNames == {"maddpg", "matd3", "mad3pg", "masac"}

\* the agent class an identifier names (line 19 and the branches of get_agents)
AgentClass(policy) ==
    CASE policy = "maddpg" -> "MADDPGAgent"
      [] policy = "matd3"  -> "MATD3Agent"
      [] policy = "mad3pg" -> "MAD3PGAgent"
      [] policy = "masac"  -> "MASACAgent"
      [] OTHER             -> "no class"

\* lines 274-308: the branch taken for an adversary
AdvAgent(good_policy, adv_policy) ==
    IF adv_policy = "maddpg" THEN [err |-> "", class |-> "MADDPGAgent"]
    ELSE IF adv_policy = "matd3" THEN [err |-> "", class |-> "MATD3Agent"]
    ELSE IF adv_policy = "mad3pg" THEN [err |-> "", class |-> "MAD3PGAgent"]
    ELSE IF adv_policy = "masac" THEN [err |-> "", class |-> "MASACAgent"]
    ELSE [err |-> "RuntimeError", class |-> ""]

\* lines 311-344: the branch taken for a good agent (line 326 tests adv_policy)
GoodAgent(good_policy, adv_policy) ==
    IF good_policy = "maddpg" THEN [err |-> "", class |-> "MADDPGAgent"]
    ELSE IF good_policy = "matd3" THEN [err |-> "", class |-> "MATD3Agent"]
    ELSE IF adv_policy = "mad3pg" THEN [err |-> "", class |-> "MAD3PGAgent"]
    ELSE IF good_policy = "masac" THEN [err |-> "", class |-> "MASACAgent"]
    ELSE [err |-> "RuntimeError", class |-> ""]

\* lines 273-345: the two loops; a loop over an empty range takes no branch
GetAgents(n, num_adversaries, good_policy, adv_policy) ==
    LET adv == AdvAgent(good_policy, adv_policy)
        good == GoodAgent(good_policy, adv_policy)
        advs == [k \in 1..num_adversaries |-> [class |-> adv.class, agent_index |-> k - 1]]
        goods == [k \in 1..(n - num_adversaries) |->
                     [class |-> good.class, agent_index |-> num_adversaries + k - 1]]
    IN IF num_adversaries > 0 /\ adv.err # "" THEN [err |-> adv.err, agents |-> <<>>]
       ELSE IF n > num_adversaries /\ good.err # "" THEN [err |-> good.err, agents |-> advs]
       ELSE [err |-> "", agents |-> advs \o goods]

\* a call get_agents(_run, env, num_adversaries) under a configuration
GetAgentsCall(num_adversaries, good_policy, adv_policy) ==
    /\ env.phase = "ready"
    /\ call.op = "init"
    /\ call' = [op |-> "get_agents",
                err |-> GetAgents(env.n, num_adversaries, good_policy, adv_policy).err,
                agents |-> GetAgents(env.n, num_adversaries, good_policy, adv_policy).agents,
                num_adversaries |-> num_adversaries,
                good_policy |-> good_policy, adv_policy |-> adv_policy]
    /\ UNCHANGED <<mode, world, cbs, env, batch, hist, train>>

---------------------------------------------------------------------------
(* train.py: train.  The agents' networks and the RLLogger are external. *)

\* what iterating over an observation array yields: its elements
Elements(o) == [j \in 1..ObsShape(o) |-> [element |-> j, of |-> o]]

IsObservation(x) == "dtype" \in DOMAIN x

\* lines 192 and 231: obs_n, pos_dict = env.reset(), on the list reset() returned
UnpackReset(obs_n) ==
    IF Len(obs_n) = 2
    THEN [err |-> "", obs_n |-> Elements(obs_n[1]), pos_dict |-> obs_n[2]]
    ELSE [err |-> "ValueError", obs_n |-> <<>>, pos_dict |-> <<>>]

\* train() ends with an exception
TrainFailed(t, err) == [t EXCEPT !.pc = "failed", !.err = err]

\* the locals after the unpacking ended with outcome u
Unpacked(t, u) ==
    IF u.err # "" THEN TrainFailed(t, u.err)
    ELSE [t EXCEPT !.pc = "loop", !.obs_n = u.obs_n, !.pos_dict = u.pos_dict]

\* line 192, r being the outcome of env.reset()
FirstReset(t, agents, r) ==
    [env |-> r.env, world |-> r.world,
     call |-> [op |-> "reset", err |-> r.err, obs_n |-> r.obs_n],
     train |-> Unpacked([t EXCEPT !.agents = agents], UnpackReset(r.obs_n))]

\* lines 179-192, ga being the outcome of get_agents
AgentsMade(e, w, t, ga) ==
    IF ga.err # ""
    THEN [env |-> e, world |-> w, call |-> [op |-> "get_agents", err |-> ga.err],
          train |-> TrainFailed(t, ga.err)]
    ELSE FirstReset(t, ga.agents, ResetEffect(e, w))

\* lines 176-192, b being the outcome of make_env(); env.n_adversaries is 0
\* (environment.py line 23)
EnvMade(t, b) ==
    IF b.err # ""
    THEN [env |-> b.env, world |-> b.world, call |-> [op |-> "init", err |-> b.err],
          train |-> TrainFailed(t, b.err)]
    ELSE AgentsMade(b.env, b.world, t,
                    GetAgents(b.env.n, n_adversaries, t.cfg.good_policy, t.cfg.adv_policy))

\* the state train() leaves after a stretch with outcome r
Training(r) ==
    /\ env' = r.env
    /\ world' = r.world
    /\ call' = r.call
    /\ train' = r.train

\* train() up to the loop (lines 174-194)
TrainStart ==
    /\ train.pc = "start"
    /\ Training(EnvMade(train, MultiAgentEnvInit(mode, world, cbs)))
    /\ UNCHANGED <<mode, cbs, batch, hist>>

\* lines 197-201 and 207: one action per (agent, obs) pair of zip(agents, obs_n);
\* the network of agent k answers with a vector of its action space
SelectActions(e, t) ==
    [k \in 1..Min(Len(t.agents), Len(t.obs_n)) |-> FullVector(e.action_space[k])]

\* any(done_n)
AnyDone(flags) == \E k \in 1..Len(flags) : flags[k]

\* a cap test that lets one more tick through
Terminal_Late(episode_step, max_episode_len) == episode_step > max_episode_len

\* line 213
Terminal(episode_step, max_episode_len) == episode_step >= max_episode_len

\* RLLogger.record_episode_end: a new episode is opened, episode_step is zeroed
RecordEpisodeEnd(t) ==
    IF t.pc = "failed" THEN t
    ELSE [t EXCEPT !.episode_step = 0, !.episode_rewards = Append(@, 0)]

\* lines 256-258
Returned(t) ==
    IF t.pc = "loop" /\ Len(t.episode_rewards) > t.cfg.num_episodes
    THEN [t EXCEPT !.pc = "returned"]
    ELSE t

\* lines 231-258, r being the outcome of env.reset() and c the step made
EpisodeEnd(t, c, r) ==
    [env |-> r.env, world |-> r.world, call |-> c,
     train |-> Returned(RecordEpisodeEnd(Unpacked(t, UnpackReset(r.obs_n))))]

\* lines 212-258 after a tick that returned
AfterTick(e, w, t, c, any_done) ==
    IF any_done \/ Terminal(t.episode_step, t.cfg.max_episode_len)
    THEN EpisodeEnd(t, c, ResetEffect(e, w))
    ELSE [env |-> e, world |-> w, call |-> c, train |-> Returned(t)]

\* lines 208-258, r being the outcome of env.step(action_n)
Ticked(t, action_n, r) ==
    IF r.err # ""
    THEN [env |-> r.env, world |-> r.world,
          call |-> [op |-> "step", err |-> r.err, action_n |-> action_n, ret |-> r.ret,
                    log |-> r.log],
          train |-> TrainFailed(t, r.err)]
    ELSE AfterTick(r.env, r.world,
                   [t EXCEPT !.episode_step = @ + 1, !.obs_n = r.ret.obs_n],
                   [op |-> "step", err |-> r.err, action_n |-> action_n, ret |-> r.ret,
                    log |-> r.log],
                   AnyDone(r.ret.done_n))

\* one iteration of the loop (lines 195-258).  What a network does with an
\* input that is not an observation is not this program's: it raises
\* (agents_raise) or answers
TrainIteration(agents_raise) ==
    /\ train.pc = "loop"
    /\ IF agents_raise /\ \E k \in 1..Len(train.obs_n) : ~IsObservation(train.obs_n[k])
       THEN /\ train' = TrainFailed(train, "AgentError")
            /\ call' = [op |-> "action", err |-> "AgentError"]
            /\ UNCHANGED <<env, world>>
       ELSE Training(Ticked(train, SelectActions(env, train),
                            MultiAgentEnvStep(env, cbs, world, <<SelectActions(env, train)>>)))
    /\ UNCHANGED <<mode, cbs, batch, hist>>

---------------------------------------------------------------------------
(* Worlds *)

Accels == {<<>>, <<3>>}       \* agent.accel: None or a number

OptBool == {<<>>, <<TRUE>>, <<FALSE>>}

\* an agent as the scenario leaves it: action.u and action.c are None (<<>>)
Agents == [movable : BOOLEAN, silent : BOOLEAN, accel : Accels, scripted : BOOLEAN,
           u : {<<>>}, c : {<<>>}]

SeqsUpTo(S, k) == UNION {[1..j -> S] : j \in 1..k}

Worlds(dimps, dimcs, agentSeqs, opts) ==
    [dim_p : dimps, dim_c : dimcs, agents : agentSeqs,
     collaborative : opts, discrete_action : opts,
     num_episodes : 0..1, t : {0}]

Modes == [discrete_action_space : {TRUE}, discrete_action_input : BOOLEAN]

\* the scenario's callbacks: whether the optional ones were passed, and the
\* parameters of the pure functions of (agent, world) that stand for them
Callbacks == [reward : BOOLEAN, done : BOOLEAN, gain : 0..MaxReward,
              done_after : {1, MaxTicks + 1}]

AllCallbacks == {c \in Callbacks : c.reward /\ c.done}

\* train() is not running
NoTrain == [pc |-> "none"]

\* resets: reset() calls so far; start: world.num_episodes before the first call;
\* before: world ticks of the episode that the last reset() ended
NoHist == [resets |-> 0, start |-> 0, before |-> 0]

(* Composition: every world up to MaxAgents agents, construction only *)
InitCompose ==
    /\ mode \in Modes
    /\ world \in Worlds(1..MaxDimP, 1..MaxDimC, SeqsUpTo({a \in Agents : a.accel = <<>>}, MaxAgents),
                        OptBool)
    /\ world.num_episodes = 0
    /\ cbs \in {c \in AllCallbacks : c.gain = 0 /\ c.done_after = 1}
    /\ env = Unbuilt
    /\ batch = <<>>
    /\ call = [op |-> "none", err |-> ""]
    /\ hist = [NoHist EXCEPT !.start = world.num_episodes]
    /\ train = NoTrain

NextCompose == Construct

SpecCompose == InitCompose /\ [][NextCompose]_vars

---------------------------------------------------------------------------
(* Decoder inputs *)

PhysLen == 2 * DimP + 1

\* every vector of at most PhysLen elements
DenseVectors == UNION {[1..k -> 0..MaxVal] : k \in 0..PhysLen}

\* tails of every length up to MaxTail, 1.0 in the last place
Tails == {[i \in 1..k |-> IF i = k THEN One ELSE 0] : k \in 1..MaxTail}

\* every full physical vector followed by a short tail
ExtendedVectors == {d \o t : d \in [1..PhysLen -> 0..MaxVal], t \in Tails}

\* long vectors around the 16 presets
SparseVectors ==
    {Peaked(len, p, q) : len \in (NumPresets - 1)..(NumPresets + MaxTail),
                         p \in 1..(NumPresets + MaxTail),
                         q \in {0, 1}}

InputVectors == DenseVectors \cup ExtendedVectors \cup SparseVectors

(* Decoding: one policy agent of every kind, every input vector *)
InitDecode ==
    /\ mode \in Modes
    /\ world \in Worlds({DimP}, {MaxDimC},
                        [1..1 -> {a \in Agents : ~a.scripted}],
                        {<<>>, <<TRUE>>})
    /\ world.collaborative = <<>>
    /\ world.num_episodes = 0
    /\ cbs \in {c \in AllCallbacks : c.gain = 0 /\ c.done_after = 1}
    /\ env = Unbuilt
    /\ batch = <<>>
    /\ call = [op |-> "none", err |-> ""]
    /\ hist = [NoHist EXCEPT !.start = world.num_episodes]
    /\ train = NoTrain

\* the decoder's result does not depend on what the agent's action held before
\* (lines 161-162 overwrite it), so one call per run covers it
DecodeOnce(action) == call.op = "init" /\ SetActionCall(1, action)

NextDecode ==
    \/ Construct
    \/ \E action \in InputVectors : DecodeOnce(action)

SpecDecode == InitDecode /\ [][NextDecode]_vars

---------------------------------------------------------------------------
(* Environment runs: construction, then reset() and step() in any order *)

\* the action lists step() is called with: one vector of the declared length
\* per policy agent, the same with the last vector too short, and the same
\* with the last vector missing
StepInputs ==
    IF env.phase # "ready" THEN {}
    ELSE LET full == [k \in 1..env.n |-> FullVector(env.action_space[k])]
         IN {full, SubSeq(full, 1, env.n - 1)}
            \cup (IF env.n = 0 THEN {} ELSE {[full EXCEPT ![env.n] = <<0, One>>]})

InitEnv ==
    /\ mode \in {m \in Modes : ~m.discrete_action_input}
    /\ world \in Worlds({DimP}, {MaxDimC},
                        SeqsUpTo({a \in Agents : a.movable /\ a.accel = <<>>
                                                  /\ (a.scripted => a.silent)},
                                 MaxAgents),
                        {<<>>, <<TRUE>>})
    /\ world.discrete_action = <<>>
    /\ cbs \in AllCallbacks
    /\ env = Unbuilt
    /\ batch = <<>>
    /\ call = [op |-> "none", err |-> ""]
    /\ hist = [NoHist EXCEPT !.start = world.num_episodes]
    /\ train = NoTrain

NextEnv ==
    \/ Construct
    \/ Reset
    \/ \E action_n \in StepInputs : Step(action_n)

SpecEnv == InitEnv /\ [][NextEnv]_vars

(* The same runs on environments built without a reward callback, without a
   done callback, or without both *)
InitOptional ==
    /\ mode \in {m \in Modes : ~m.discrete_action_input}
    /\ world \in Worlds({DimP}, {MaxDimC},
                        SeqsUpTo({a \in Agents : a.movable /\ a.accel = <<>>
                                                  /\ (a.scripted => a.silent)},
                                 MaxAgents),
                        {<<>>, <<TRUE>>})
    /\ world.discrete_action = <<>>
    /\ world.num_episodes = 0
    /\ cbs \in {c \in Callbacks : ~(c.reward /\ c.done)}
    /\ env = Unbuilt
    /\ batch = <<>>
    /\ call = [op |-> "none", err |-> ""]
    /\ hist = [NoHist EXCEPT !.start = world.num_episodes]
    /\ train = NoTrain

SpecOptional == InitOptional /\ [][NextEnv]_vars

---------------------------------------------------------------------------
(* Batches: up to MaxBatch environments, each built over a world of movable,
   silent policy agents *)

Mover == [movable |-> TRUE, silent |-> TRUE, accel |-> <<>>, scripted |-> FALSE,
          u |-> <<>>, c |-> <<>>]

BatchWorld(n, collaborative) ==
    [dim_p |-> DimP, dim_c |-> MaxDimC, agents |-> [k \in 1..n |-> Mover],
     collaborative |-> collaborative, discrete_action |-> <<>>,
     num_episodes |-> 0, t |-> 0]

\* MultiAgentEnv(world, ...) as a [env, world] pair
Built(m, w, c) ==
    [env |-> MultiAgentEnvInit(m, w, c).env, world |-> MultiAgentEnvInit(m, w, c).world]

InitBatch ==
    /\ mode \in {m \in Modes : ~m.discrete_action_input}
    /\ cbs \in {c \in AllCallbacks : c.done_after = 1}
    /\ \E sizes \in UNION {[1..k -> 1..(MaxAgents + 1)] : k \in 0..MaxBatch},
          collaborative \in {<<>>, <<TRUE>>} :
          batch = [j \in 1..Len(sizes) |-> Built(mode, BatchWorld(sizes[j], collaborative), cbs)]
    /\ world = BatchWorld(0, <<>>)
    /\ env = Unbuilt
    /\ call = [op |-> "none", err |-> ""]
    /\ hist = NoHist
    /\ train = NoTrain

\* joint action lists: one five-way vector per agent of the batch
JointInputs ==
    [1..BatchN(batch) -> {Peaked(PhysLen, 2, 0), Peaked(PhysLen, PhysLen, 1)}]

NextBatch ==
    \/ BatchReset
    \/ \E action_n \in JointInputs, time \in 0..1 : BatchStep(action_n, time)

SpecBatch == InitBatch /\ [][NextBatch]_vars

---------------------------------------------------------------------------
(* get_agents: environments of up to MaxAgents policy agents, every split into
   adversaries and good agents, every pair of policy identifiers *)

\* the four available identifiers and one that is not available
Policies == PolicyNames \cup {"ddpg"}

InitAgents ==
    /\ mode \in {m \in Modes : ~m.discrete_action_input}
    /\ cbs \in {c \in AllCallbacks : c.gain = 0 /\ c.done_after = 1}
    /\ world \in {BatchWorld(n, <<>>) : n \in 0..MaxAgents}
    /\ env = Unbuilt
    /\ batch = <<>>
    /\ call = [op |-> "none", err |-> ""]
    /\ hist = NoHist
    /\ train = NoTrain

NextAgents ==
    \/ Construct
    \/ \E num_adversaries \in 0..MaxAgents, good_policy \in Policies, adv_policy \in Policies :
          /\ env.phase = "ready"
          /\ num_adversaries <= env.n
          /\ GetAgentsCall(num_adversaries, good_policy, adv_policy)

SpecAgents == InitAgents /\ [][NextAgents]_vars

---------------------------------------------------------------------------
(* Training runs: train() on worlds of up to MaxAgents movable, silent policy
   agents, under every configuration *)

Configs ==
    [max_episode_len : 1..(MaxTicks + 1), num_episodes : 1..MaxEpisodes,
     good_policy : Policies, adv_policy : {"matd3"}]

InitTrain ==
    /\ mode \in {m \in Modes : ~m.discrete_action_input}
    /\ cbs \in AllCallbacks
    /\ \E n \in 0..MaxAgents, collaborative \in {<<>>, <<TRUE>>} :
          world = BatchWorld(n, collaborative)
    /\ env = Unbuilt
    /\ batch = <<>>
    /\ call = [op |-> "none", err |-> ""]
    /\ hist = NoHist
    /\ \E cfg \in Configs :
          train = [pc |-> "start", err |-> "", cfg |-> cfg, agents |-> <<>>,
                   obs_n |-> <<>>, pos_dict |-> <<>>, episode_step |-> 0,
                   episode_rewards |-> <<0>>]

NextTrain ==
    \/ TrainStart
    \/ \E agents_raise \in BOOLEAN : TrainIteration(agents_raise)

SpecTrain == InitTrain /\ [][NextTrain]_vars

---------------------------------------------------------------------------
(* Claims about the action-space composition (SpecCompose) *)

\* the agent behind policy slot k of the environment
AgentOf(k) == world.agents[env.agents[k]]

PhysicalCardinality == IF mode.discrete_action_input THEN 16 ELSE 2 * world.dim_p + 1

\* C8: constructing the environment over a world with a policy agent that is
\* neither movable nor communicating fails with an error, and no environment
\* that was built holds an agent without a sub-space or an empty action space.
C8_EmptySpaceFailsConstruction ==
    /\ (call.op = "init"
        /\ \E i \in 1..Len(world.agents) :
              LET a == world.agents[i] IN ~a.scripted /\ ~a.movable /\ a.silent)
       => (env.phase = "failed" /\ call.err # "")
    /\ env.phase = "ready"
       => /\ Len(env.action_space) = env.n
          /\ \A k \in 1..env.n :
                /\ AgentOf(k).movable \/ ~AgentOf(k).silent
                /\ env.action_space[k].kind \in {"Discrete", "MultiDiscrete"}
                /\ env.action_space[k].kind = "MultiDiscrete"
                      => Len(env.action_space[k].high) > 0

C8_Witness ==
    /\ call.op = "init"
    /\ env.phase = "failed"
    /\ Len(world.agents) = 2
    /\ world.agents[1].movable /\ ~world.agents[1].scripted
    /\ ~world.agents[2].movable /\ world.agents[2].silent /\ ~world.agents[2].scripted

\* C10: the action space of every policy agent holds a physical sub-space iff
\* the agent is movable and a communication sub-space iff it is not silent,
\* physical first: MultiDiscrete over [0, n-1] of both when both are present,
\* the single Discrete sub-space otherwise; the physical sub-space has
\* 2*dim_p+1 actions outside discrete-input mode and 16 in it.
C10_SpaceReflectsCapabilities ==
    env.phase = "ready" =>
        \A k \in 1..env.n :
            LET a == AgentOf(k)
                sp == env.action_space[k]
            IN /\ (a.movable /\ ~a.silent) =>
                      sp = [kind |-> "MultiDiscrete",
                            low |-> <<0, 0>>,
                            high |-> <<PhysicalCardinality - 1, world.dim_c - 1>>]
               /\ (a.movable /\ a.silent) =>
                      sp = [kind |-> "Discrete", n |-> PhysicalCardinality]
               /\ (~a.movable /\ ~a.silent) =>
                      sp = [kind |-> "Discrete", n |-> world.dim_c]

C10_Witness ==
    /\ env.phase = "ready"
    /\ env.n = 2
    /\ world.dim_p = 2 /\ world.dim_c = 2
    /\ AgentOf(1).movable /\ ~AgentOf(1).silent
    /\ env.action_space[1].kind = "MultiDiscrete"
    /\ env.action_space[1].high = <<15, 1>>
    /\ ~AgentOf(2).movable
    /\ env.action_space[2] = [kind |-> "Discrete", n |-> 2]

---------------------------------------------------------------------------
(* Claims about the decoder (SpecDecode) *)

\* the element count of a declared action space
DeclaredLen(sp) ==
    IF sp.kind = "MultiDiscrete"
    THEN SumSeq([j \in 1..Len(sp.high) |-> sp.high[j] - sp.low[j] + 1])
    ELSE sp.n

Decoded == call.op = "set_action"

\* C1: decoding succeeds only if the action vector has exactly the element
\* count of the agent's declared action space.
C1_DecodeOnlyExactLength ==
    (Decoded /\ call.err = "")
        => Len(call.action) = DeclaredLen(env.action_space[call.k])

\* the physical sub-vector of a vector of the declared length
PhysicalPart(action) ==
    IF AgentOf(call.k).silent THEN action
    ELSE SubSeq(action, 1, Len(action) - world.dim_c)

FiveWayMode ==
    /\ env.discrete_action_space
    /\ ~env.discrete_action_input
    /\ ~env.force_discrete_action

ClaimedSensitivity(a) == IF a.accel = <<>> THEN 5 ELSE a.accel[1]

\* C6: in five-way mode the command of a movable agent is
\* sensitivity * (vec[1]-vec[2], vec[3]-vec[4]) with sensitivity agent.accel
\* if set and 5.0 otherwise; the four one-hot vectors give (s,0), (-s,0),
\* (0,s), (0,-s) and the vector with elements 1..4 zero gives (0,0).
C6_FiveWayDecode ==
    (/\ Decoded
     /\ FiveWayMode
     /\ AgentOf(call.k).movable
     /\ Len(call.action) = DeclaredLen(env.action_space[call.k]))
    => LET a == AgentOf(call.k)
           vec == PhysicalPart(call.action)
           s == ClaimedSensitivity(a)
           hot(j) == vec[j + 1] = One /\ \A i \in 1..4 : i # j => vec[i + 1] = 0
       IN /\ call.err = ""
          /\ a.u = <<s * (vec[2] - vec[3]), s * (vec[4] - vec[5])>>
          /\ hot(1) => a.u = <<s * One, 0>>
          /\ hot(2) => a.u = <<-(s * One), 0>>
          /\ hot(3) => a.u = <<0, s * One>>
          /\ hot(4) => a.u = <<0, -(s * One)>>
          /\ (\A i \in 1..4 : vec[i + 1] = 0) => a.u = <<0, 0>>

C6_Witness ==
    /\ Decoded /\ FiveWayMode
    /\ call.err = ""
    /\ AgentOf(call.k).movable /\ ~AgentOf(call.k).silent
    /\ AgentOf(call.k).accel = <<3>>
    /\ call.action = <<2, 0, 2, 0, 0, 0, 2>>
    /\ AgentOf(call.k).u = <<-6, 0>>

\* the one-hot vector of the length of v that is 1.0 at arg-max(v)
OneHotAtArgMax(v) == [i \in 1..Len(v) |-> IF i = ArgMax(v) + 1 THEN One ELSE 0]

\* C7: with force_discrete_action, decoding a vector of the declared length
\* leaves the agent with the command that decoding, without forcing, the
\* vector with its physical part replaced by the one-hot at its arg-max gives.
C7_ForceEqualsOneHot ==
    (/\ Decoded
     /\ env.force_discrete_action
     /\ AgentOf(call.k).movable
     /\ Len(call.action) = DeclaredLen(env.action_space[call.k]))
    => LET a == AgentOf(call.k)
           vec == PhysicalPart(call.action)
           rest == SubSeq(call.action, Len(vec) + 1, Len(call.action))
           plain == SetAction([env EXCEPT !.force_discrete_action = FALSE], world, a,
                              OneHotAtArgMax(vec) \o rest, env.action_space[call.k])
       IN /\ call.err = plain.err
          /\ a.u = plain.u
          /\ a.c = plain.c

C7_Witness ==
    /\ Decoded
    /\ env.force_discrete_action /\ ~env.discrete_action_input
    /\ call.err = ""
    /\ AgentOf(call.k).movable /\ AgentOf(call.k).silent
    /\ AgentOf(call.k).accel = <<>>
    /\ call.action = <<1, 2, 0, 2, 1>>
    /\ AgentOf(call.k).u = <<10, 0>>

\* the declared length of segment j of a MultiDiscrete space, and where it starts
SegmentLen(sp, j) == sp.high[j] - sp.low[j] + 1

SegmentStart(sp, j) == SumSeq([i \in 1..(j - 1) |-> SegmentLen(sp, i)])

\* C13: for a MultiDiscrete action space the decoder splits a flat vector (of at
\* least the declared length) into contiguous, non-overlapping segments in
\* declared-range order, segment j having length high_j-low_j+1 and starting
\* where segment j-1 ended; for a movable, non-silent agent the first segment
\* is the physical sub-vector and the second becomes agent.action.c; for a
\* silent agent agent.action.c is the zero vector after decoding.
C13_MultiDiscreteSegments ==
    Decoded =>
        LET a == AgentOf(call.k)
            sp == env.action_space[call.k]
        IN /\ (sp.kind = "MultiDiscrete" /\ Len(call.action) >= DeclaredLen(sp)) =>
                 /\ Len(call.segs) = Len(sp.high)
                 /\ \A j \in 1..Len(sp.high) :
                       /\ Len(call.segs[j]) = SegmentLen(sp, j)
                       /\ \A i \in 1..SegmentLen(sp, j) :
                             call.segs[j][i] = call.action[SegmentStart(sp, j) + i]
                 /\ (a.movable /\ ~a.silent /\ call.err = "") =>
                       /\ a.c = call.segs[2]
                       /\ FiveWayMode =>
                             a.u = Scale(<<call.segs[1][2] - call.segs[1][3],
                                           call.segs[1][4] - call.segs[1][5]>>,
                                         ClaimedSensitivity(a))
           /\ a.silent => a.c = [i \in 1..world.dim_c |-> 0]

C13_Witness ==
    /\ Decoded /\ call.err = ""
    /\ FiveWayMode
    /\ AgentOf(call.k).movable /\ ~AgentOf(call.k).silent
    /\ AgentOf(call.k).accel = <<>>
    /\ env.action_space[call.k].kind = "MultiDiscrete"
    /\ call.action = <<0, 0, 0, 2, 0, 0, 2>>
    /\ call.segs = << <<0, 0, 0, 2, 0>>, <<0, 2>> >>
    /\ AgentOf(call.k).u = <<0, 10>>
    /\ AgentOf(call.k).c = <<0, 2>>

\* the claimed table: eight compass vectors at magnitude 1.0, then the same
\* eight with every component halved (in halves: 1.0 is 2, 0.5 is 1)
ClaimedTable(d) ==
    LET full == << <<0, 1>>, <<1, 1>>, <<1, 0>>, <<1, -1>>,
                   <<0, -1>>, <<-1, -1>>, <<-1, 0>>, <<-1, 1>> >>
    IN IF d < 8 THEN <<2 * full[d + 1][1], 2 * full[d + 1][2]>>
       ELSE full[d - 7]

\* C16: in discrete-input mode the command of a movable agent whose physical
\* sub-vector has its arg-max at d in 0..15 is sensitivity * T[d], T being the
\* 16-entry table above; index 0 maps to (0, 1.0).
C16_PresetTable ==
    (/\ Decoded
     /\ env.discrete_action_input
     /\ AgentOf(call.k).movable
     /\ Len(call.segs[1]) > 0
     /\ ArgMax(call.segs[1]) <= 15)
    => LET a == AgentOf(call.k)
           d == ArgMax(call.segs[1])
           s == ClaimedSensitivity(a)
       IN /\ a.u = <<s * ClaimedTable(d)[1], s * ClaimedTable(d)[2]>>
          /\ d = 0 => a.u = <<0, s * 2>>
          /\ a.silent /\ Len(call.action) = DeclaredLen(env.action_space[call.k])
                => call.err = ""

C16_Witness ==
    /\ Decoded /\ call.err = ""
    /\ env.discrete_action_input
    /\ AgentOf(call.k).movable /\ AgentOf(call.k).silent
    /\ AgentOf(call.k).accel = <<3>>
    /\ Len(call.action) = 16
    /\ ArgMax(call.action) = 11
    /\ AgentOf(call.k).u = <<3, -3>>

---------------------------------------------------------------------------
(* Claims about reset() and step() (SpecEnv) *)

Stepped == call.op = "step" /\ call.err = ""

\* every vector of the list has the element count of its agent's action space
WellFormed(action_n) ==
    /\ Len(action_n) = env.n
    /\ \A k \in 1..env.n : Len(action_n[k]) = DeclaredLen(env.action_space[k])

\* C2: every step(actions) call (with one vector of the declared length per
\* agent) returns four sequences (observations, rewards, dones, infos), each of
\* length n, element i of each being the value produced for agent i of the
\* agent list.
C2_StepReturnsAlignedSequences ==
    (call.op = "step" /\ WellFormed(call.action_n)) =>
        /\ call.err = ""
        /\ Len(call.ret.obs_n) = env.n
        /\ Len(call.ret.reward_n) = env.n
        /\ Len(call.ret.done_n) = env.n
        /\ Len(call.ret.info_n) = env.n
        /\ \A k \in 1..env.n :
              LET i == policy_agents(world)[k]
              IN /\ call.ret.obs_n[k] = [agent |-> i, t |-> world.t, dtype |-> "float32"]
                 /\ call.ret.done_n[k] = done_callback(cbs, i, world).done
                 /\ call.ret.info_n[k] = done_callback(cbs, i, world).info
                 /\ call.ret.raw[k] = reward_callback(cbs, i, world).reward
                 /\ ~env.shared_reward => call.ret.reward_n[k] = call.ret.raw[k]

\* C3: with the raw rewards r collected by step, every returned reward is
\* sum(r) if shared_reward is true, and the returned rewards are r unchanged
\* if it is false; shared_reward is the world's collaborative flag.
C3_SharedRewardIsSum ==
    Stepped =>
        /\ env.shared_reward = (world.collaborative = <<TRUE>>)
        /\ env.shared_reward =>
              /\ Len(call.ret.reward_n) = env.n
              /\ \A k \in 1..env.n : call.ret.reward_n[k] = SumSeq(call.ret.raw)
        /\ ~env.shared_reward => call.ret.reward_n = call.ret.raw

C3_Witness ==
    /\ Stepped
    /\ env.shared_reward
    /\ env.n = 2
    /\ call.ret.raw = <<1, 0>>
    /\ call.ret.reward_n = <<1, 1>>

\* C5: World.num_episodes is its initial value plus the number of reset()
\* calls made so far, whatever steps were made in between.
C5_EpisodesCountResets ==
    env.phase = "ready" => world.num_episodes = hist.start + hist.resets

C5_Witness ==
    /\ call.op = "reset"
    /\ hist.resets = 2
    /\ hist.before = 2
    /\ hist.start = 1
    /\ world.num_episodes = 3

\* C9: reset() returns exactly one observation per policy agent, in agent-list
\* order, each taken from the observation callback on the world as the reset
\* callback left it.
C9_ResetReturnsObservations ==
    call.op = "reset" =>
        /\ call.err = ""
        /\ world.t = 0
        /\ Len(call.obs_n) = env.n
        /\ \A k \in 1..env.n :
              call.obs_n[k] =
                  [observation_callback(policy_agents(world)[k], world)
                       EXCEPT !.dtype = "float32"]

C9_Witness ==
    /\ call.op = "reset"
    /\ hist.before > 0
    /\ env.n = 1
    /\ Len(world.agents) = 2
    /\ call.obs_n = <<[agent |-> 2, t |-> 0, dtype |-> "float32"]>>

\* the events of a complete step() over the policy agents `agents`
ExpectedLog(agents) ==
    [k \in 1..Len(agents) |-> Event("_set_action", agents[k])]
    \o <<Event("world.step", 0)>>
    \o [j \in 1..(3 * Len(agents)) |->
           Event(<<"observation_callback", "reward_callback", "done_callback">>[((j - 1) % 3) + 1],
                 agents[((j - 1) \div 3) + 1])]

IsPrefix(a, b) == Len(a) <= Len(b) /\ SubSeq(b, 1, Len(a)) = a

\* C11: within every step() call the decoder is invoked once per policy agent
\* in list order, then World.step() once, then for each agent in list order the
\* observation, reward and done callbacks in that order; a call that raises
\* stops somewhere in that sequence, so no callback runs before World.step()
\* and no action is written after it.
C11_StepEventOrder ==
    call.op = "step" =>
        /\ IsPrefix(call.log, ExpectedLog(policy_agents(world)))
        /\ call.err = "" => call.log = ExpectedLog(policy_agents(world))

C11_Witness ==
    /\ call.op = "step" /\ call.err = ""
    /\ Len(world.agents) = 2 /\ env.n = 1
    /\ call.log = <<Event("_set_action", 2), Event("world.step", 0),
                    Event("observation_callback", 2), Event("reward_callback", 2),
                    Event("done_callback", 2)>>

\* the reward breakdown the reward callback returned for world agent i on tick j
BreakdownAt(i, j) == reward_callback(cbs, i, [world EXCEPT !.t = j]).list

\* after a reset, buffer k holds one entry per tick of the episode, entry j
\* being entry(agent, j); the buffers beyond the policy agents stay empty
HistoryHolds(entry(_, _)) ==
    (env.phase = "ready" /\ hist.resets > 0) =>
        /\ Len(env.reward_list_all) = Len(world.agents)
        /\ \A k \in 1..Len(world.agents) :
              env.reward_list_all[k] =
                  IF k <= env.n
                  THEN [j \in 1..world.t |-> entry(policy_agents(world)[k], j)]
                  ELSE <<>>

\* step() only appends to the buffers
HistoryAppendOnly ==
    (env.phase = "ready" /\ call'.op = "step") =>
        /\ Len(env'.reward_list_all) = Len(env.reward_list_all)
        /\ \A k \in 1..Len(env.reward_list_all) :
              IsPrefix(env.reward_list_all[k], env'.reward_list_all[k])

RoundedBreakdownAt(i, j) == RoundAll(BreakdownAt(i, j))

\* C12 as stated: after a reset() followed by k step() calls the buffer of
\* every policy agent holds exactly k entries, the j-th being the reward
\* breakdown the reward callback returned for the agent on tick j.
C12_HistoryHoldsBreakdowns == HistoryHolds(BreakdownAt)

\* C12 (amended): reset() clears the buffers and step() only appends to them:
\* after a reset() followed by k step() calls that return, the buffer of every
\* policy agent holds exactly k entries, the j-th being the reward breakdown
\* returned for the agent on tick j rounded to two decimals; step() never
\* removes or rewrites an entry.
C12_HistoryHoldsRoundedBreakdowns ==
    /\ [](HistoryHolds(RoundedBreakdownAt))
    /\ [][HistoryAppendOnly]_vars

C12_Witness ==
    /\ call.op = "step" /\ call.err = ""
    /\ hist.resets = 2 /\ hist.before > 0
    /\ world.t = 2
    /\ env.n = 2
    /\ cbs.gain = 1
    /\ env.reward_list_all = <<<< <<0>>, <<1000>> >>, << <<1000>>, <<0>> >> >>

\* C18: on an environment built without a reward callback or without a done
\* callback, a step() (after a reset, with one vector of the declared length
\* per agent) completes without error and reports reward 0.0 for a missing
\* reward callback and done False for a missing done callback, for every agent.
C18_OptionalCallbacks ==
    (/\ call.op = "step"
     /\ hist.resets > 0
     /\ WellFormed(call.action_n)
     /\ ~env.reward_callback \/ ~env.done_callback)
    => /\ call.err = ""
       /\ ~env.reward_callback => \A k \in 1..env.n : call.ret.raw[k] = 0
       /\ ~env.done_callback => \A k \in 1..env.n : call.ret.done_n[k] = FALSE

---------------------------------------------------------------------------
(* Claims about get_agents (SpecAgents) *)

\* C15: get_agents builds exactly env.n agents, the first num_adversaries of
\* the class adv_policy names and the others of the class good_policy names,
\* for each of maddpg, matd3, mad3pg and masac; it raises an error iff the
\* applicable identifier is not one of these four.
C15_AgentsByPolicy ==
    call.op = "get_agents" =>
        LET advs == call.num_adversaries > 0
            goods == env.n > call.num_adversaries
            valid == /\ advs => call.adv_policy \in PolicyNames
                     /\ goods => call.good_policy \in PolicyNames
        IN /\ (call.err # "") <=> ~valid
           /\ call.err = "" =>
                 /\ Len(call.agents) = env.n
                 /\ \A k \in 1..env.n :
                       /\ call.agents[k].agent_index = k - 1
                       /\ call.agents[k].class =
                             IF k <= call.num_adversaries
                             THEN AgentClass(call.adv_policy)
                             ELSE AgentClass(call.good_policy)

---------------------------------------------------------------------------
(* Claims about train (SpecTrain) *)

\* a loop iteration whose tick returned
Tick == train.pc = "loop" /\ call'.op = "step" /\ call'.err = ""

\* env.reset() is called iff a done flag of the tick is true or the step
\* counter has reached max_episode_len
ResetIffDone ==
    Tick => ((world'.num_episodes = world.num_episodes + 1)
             <=> (AnyDone(call'.ret.done_n)
                  \/ train.episode_step + 1 >= train.cfg.max_episode_len))

\* C14: in the training loop env.reset() is called after a tick iff a done flag
\* returned by the tick is true or the episode step counter has reached
\* max_episode_len (every other tick leaves the episode counter alone);
\* with the logger zeroing episode_step at episode end, no episode runs for
\* more than max_episode_len ticks.
C14_ResetIffDoneOrCap ==
    /\ [][ResetIffDone]_vars
    /\ [][Tick => world'.num_episodes \in {world.num_episodes, world.num_episodes + 1}]_vars
    /\ [](train.pc \in {"loop", "returned"} =>
             /\ world.t = train.episode_step
             /\ world.t <= train.cfg.max_episode_len)

C14_Witness ==
    /\ train.pc = "loop"
    /\ call.op = "step" /\ call.err = ""
    /\ ~AnyDone(call.ret.done_n)
    /\ train.cfg.max_episode_len = 1
    /\ Len(train.episode_rewards) = 2
    /\ world.num_episodes = 2
    /\ world.t = 0

\* C17: every time actions are selected obs_n holds exactly one observation
\* per agent, obs_n[i] being agent i's latest observation, at the start of the
\* run and after every episode boundary: what train() unpacks from
\* env.reset() is the list of observations that reset() returns.
C17_ObsPerAgent ==
    /\ train.pc = "failed" => train.err # "ValueError"
    /\ train.pc = "loop" =>
          /\ Len(train.obs_n) = env.n
          /\ \A k \in 1..env.n :
                train.obs_n[k] = GetObs(policy_agents(world)[k], world)

---------------------------------------------------------------------------
(* Claims about BatchMultiAgentEnv (SpecBatch) *)

Offset(j) == SumSeq([k \in 1..(j - 1) |-> batch[k].env.n])

\* C4: BatchMultiAgentEnv.step on K sub-environments completes, passes
\* sub-environment i the slice [offset_i, offset_i + n_i) of the joint action
\* list, and returns observation, reward and done lists of length
\* n_0 + ... + n_{K-1}.
C4_BatchStepSlicesAndConcatenates ==
    (call.op = "batch_step" /\ Len(call.action_n) = BatchN(batch)) =>
        /\ call.err = ""
        /\ Len(call.passed) = Len(batch)
        /\ \A j \in 1..Len(batch) :
              call.passed[j][1] =
                  SubSeq(call.action_n, Offset(j) + 1, Offset(j) + batch[j].env.n)
        /\ Len(call.obs_n) = BatchN(batch)
        /\ Len(call.reward_n) = BatchN(batch)
        /\ Len(call.done_n) = BatchN(batch)

=============================================================================
